---------------------------- MODULE Spec2Model ----------------------------
(***************************************************************************)
(* Model of the AWS Bedrock chatbot client:                                *)
(*   - the Pinia chat store (stores/chat.ts),                              *)
(*   - the streaming exchange of AWSBedrockService                         *)
(*     (services/aws-bedrock.ts: sendMessageWithStreaming,                 *)
(*     processReadableStream, processSSEBuffer, parseSSEResponse),         *)
(*   - the error classifier (types/guards.ts),                             *)
(*   - the handlers of ChatContainer.vue that wire the two together.       *)
(*                                                                         *)
(* Text is modelled as a sequence of tokens.  A token is either one        *)
(* character or a run of letters that the program's regular expressions    *)
(* and string tests only ever match as a whole ("contentBlockDelta",       *)
(* "data", ...).  Every character class used by the program (\s, [^}],     *)
(* [^']) is uniform over the characters of each token, so matching on      *)
(* tokens is matching on characters.  Raw channel data is a sequence of    *)
(* bytes: every token is one byte, except the two-byte character EAcute.   *)
(***************************************************************************)
EXTENDS Naturals, Integers, Sequences, FiniteSets, TLC

(***************************************************************************)
(* Bounds of the model.                                                    *)
(***************************************************************************)
MaxIds == 2
MaxBlocks == 2
MaxExchanges == 2

(***************************************************************************)
(* Tokens.                                                                 *)
(***************************************************************************)
LF == "LF"
TAB == "TAB"
SP == " "
BS == "\\"
Q == "'"
DQ == "\""
LB == "{"
RB == "}"
COLON == ":"
COMMA == ","
EAcute == "e-acute"
ByteC3 == "0xC3"
ByteA9 == "0xA9"
FFFD == "U+FFFD"

IsWS(c) == c \in {SP, LF, TAB}

(***************************************************************************)
(* Sequence helpers that mirror the JavaScript string methods used.        *)
(***************************************************************************)
Max(S) == CHOOSE x \in S : \A y \in S : y <= x

Min(S) == CHOOSE x \in S : \A y \in S : x <= y

Drop(s, n) == SubSeq(s, n + 1, Len(s))

Take(s, n) == SubSeq(s, 1, n)

\* s.startsWith(p)
StartsWith(s, p) == Len(p) <= Len(s) /\ Take(s, Len(p)) = p

\* the literal lit occurs in s at position i
LitAt(s, i, lit) ==
    /\ i >= 1
    /\ i + Len(lit) - 1 <= Len(s)
    /\ \A k \in 1..Len(lit) : s[i + k - 1] = lit[k]

\* s.trim() is non-empty
TrimNonEmpty(s) == \E i \in 1..Len(s) : ~IsWS(s[i])

\* s.split(sep): the pieces between the leftmost non-overlapping
\* occurrences of sep, in order; always at least one piece.
RECURSIVE Split(_, _)
Split(s, sep) ==
    LET hits == {i \in 1..Len(s) : LitAt(s, i, sep)}
    IN  IF hits = {} THEN <<s>>
        ELSE <<Take(s, Min(hits) - 1)>> \o Split(Drop(s, Min(hits) + Len(sep) - 1), sep)

\* s.replace(/pat/g, rep) for a literal pattern
RECURSIVE ReplaceAll(_, _, _)
ReplaceAll(s, pat, rep) ==
    IF s = <<>> THEN <<>>
    ELSE IF StartsWith(s, pat)
         THEN rep \o ReplaceAll(Drop(s, Len(pat)), pat, rep)
         ELSE <<Head(s)>> \o ReplaceAll(Tail(s), pat, rep)

\* s.replace(/\\t/g, '\t'): a backslash followed by the letter t; the
\* word tokens "text" and "tool_use" begin with that letter.
RECURSIVE ReplaceEscT(_)
ReplaceEscT(s) ==
    IF Len(s) < 2 THEN s
    ELSE IF s[1] = BS /\ s[2] = "t" THEN <<TAB>> \o ReplaceEscT(Drop(s, 2))
    ELSE IF s[1] = BS /\ s[2] = "text" THEN <<TAB, "ext">> \o ReplaceEscT(Drop(s, 2))
    ELSE IF s[1] = BS /\ s[2] = "tool_use"
         THEN <<TAB, "ool_use">> \o ReplaceEscT(Drop(s, 2))
    ELSE <<Head(s)>> \o ReplaceEscT(Tail(s))

\* first index >= i of s that holds no whitespace (Len(s)+1 if none): \s*
RECURSIVE SkipWS(_, _)
SkipWS(s, i) == IF i <= Len(s) /\ IsWS(s[i]) THEN SkipWS(s, i + 1) ELSE i

\* concatenation of a sequence of sequences
RECURSIVE Concat(_)
Concat(ss) == IF ss = <<>> THEN <<>> ELSE Head(ss) \o Concat(Tail(ss))

IsPrefix(p, s) == Len(p) <= Len(s) /\ Take(s, Len(p)) = p

(***************************************************************************)
(* TextDecoder('utf-8').decode(value, {stream: true}): bytes to            *)
(* characters; an incomplete multi-byte sequence at the end of a chunk is  *)
(* kept in the decoder (pending) until the next chunk.  A lead byte not    *)
(* followed by its continuation byte, and a continuation byte without      *)
(* lead, decode to U+FFFD.                                                 *)
(***************************************************************************)
Skip == "skip"

DecodeBytes(pending, bytes) ==
    LET bs == pending \o bytes
        out == [i \in 1..Len(bs) |->
                   IF bs[i] = ByteC3
                   THEN IF i = Len(bs) THEN Skip
                        ELSE IF bs[i + 1] = ByteA9 THEN EAcute ELSE FFFD
                   ELSE IF bs[i] = ByteA9
                        THEN IF i > 1 /\ bs[i - 1] = ByteC3 THEN Skip ELSE FFFD
                   ELSE bs[i]]
    IN  [text |-> SelectSeq(out, LAMBDA c : c # Skip),
         pending |-> IF bs # <<>> /\ bs[Len(bs)] = ByteC3 THEN <<ByteC3>> ELSE <<>>]

\* (not the program: a decoder that forgets the lead byte a chunk ends with)
DecodeStreamNoCarry(pending, bytes) ==
    LET r == DecodeBytes(<<>>, bytes)
    IN  [text |-> r.text \o (IF r.pending # <<>> THEN <<FFFD>> ELSE <<>>),
         pending |-> <<>>]

\* decoder.decode(value, { stream: true })
DecodeStream(pending, bytes) == DecodeBytes(pending, bytes)

\* response.transformToString(): the whole body decoded at once
TransformToString(bytes) ==
    LET r == DecodeBytes(<<>>, bytes)
    IN  r.text \o (IF r.pending # <<>> THEN <<FFFD>> ELSE <<>>)


(***************************************************************************)
(* Event Text Extractor: the regular expressions of processSSEBuffer and   *)
(* parseSSEResponse.                                                       *)
(***************************************************************************)
DataPrefix == <<"data", COLON, SP>>
CBDLit == <<Q, "contentBlockDelta", Q, COLON>>
TextLit == <<Q, "text", Q, COLON>>
StopReasonLit == <<Q, "stopReason", Q, COLON>>
ToolUseLit == <<Q, "tool_use", Q>>

\* const toolUseMessage = '\n> ...\n\n' (the fixed status notice)
ToolUseMessage == <<LF, ">", SP, "tool-status-notice", LF, LF>>

\* the first line that starts with 'data: ', without the prefix; '' if none
RECURSIVE FirstDataLine(_)
FirstDataLine(lines) ==
    IF lines = <<>> THEN <<>>
    ELSE IF StartsWith(Head(lines), DataPrefix) THEN Drop(Head(lines), Len(DataPrefix))
    ELSE FirstDataLine(Tail(lines))

DataOf(eventData) == FirstDataLine(Split(eventData, <<LF>>))

\* first index > m of s that holds a quote (0 if none)
NextQuote(s, m) ==
    IF \E i \in (m + 1)..Len(s) : s[i] = Q
    THEN Min({i \in (m + 1)..Len(s) : s[i] = Q})
    ELSE 0

\* /'contentBlockDelta':\s*\{[^}]*'text':\s*'([^']*)'/ started at i: the
\* positions k of 'text': at which the rest of the expression matches
TextMatchAt(d, i) ==
    IF ~LitAt(d, i, CBDLit) THEN {}
    ELSE LET j == SkipWS(d, i + Len(CBDLit))
         IN  IF ~(j <= Len(d) /\ d[j] = LB) THEN {}
             ELSE {k \in (j + 1)..Len(d) :
                     /\ \A x \in (j + 1)..(k - 1) : d[x] # RB
                     /\ LitAt(d, k, TextLit)
                     /\ LET m == SkipWS(d, k + Len(TextLit))
                        IN  m <= Len(d) /\ d[m] = Q /\ NextQuote(d, m) # 0}

\* data.match(...): the leftmost start; [^}]* is greedy, so the last
\* 'text': it can reach; textMatch[1] is the text between the quotes
TextMatch(d) ==
    LET starts == {i \in 1..Len(d) : TextMatchAt(d, i) # {}}
    IN  IF starts = {} THEN [matched |-> FALSE, text |-> <<>>]
        ELSE LET k == Max(TextMatchAt(d, Min(starts)))
                 m == SkipWS(d, k + Len(TextLit))
             IN  [matched |-> TRUE, text |-> SubSeq(d, m + 1, NextQuote(d, m) - 1)]

\* data.match(/'stopReason':\s*'tool_use'/)
ToolUseMatch(d) ==
    \E i \in 1..Len(d) :
        /\ LitAt(d, i, StopReasonLit)
        /\ LitAt(d, SkipWS(d, i + Len(StopReasonLit)), ToolUseLit)

\* processSSEBuffer: .replace(/\\\\n/g,'\n').replace(/\\n/g,'\n')
\*   .replace(/\\t/g,'\t').replace(/\\'/g,"'").replace(/\\"/g,'"')
UnescapeIncremental(t) ==
    ReplaceAll(ReplaceAll(ReplaceEscT(
        ReplaceAll(ReplaceAll(t, <<BS, BS, "n">>, <<LF>>), <<BS, "n">>, <<LF>>)),
        <<BS, Q>>, <<Q>>), <<BS, DQ>>, <<DQ>>)

\* parseSSEResponse: .replace(/\\n/g,'\n').replace(/\\t/g,'\t')
\*   .replace(/\\'/g,"'").replace(/\\"/g,'"')
UnescapeBuffered(t) ==
    ReplaceAll(ReplaceAll(ReplaceEscT(ReplaceAll(t, <<BS, "n">>, <<LF>>)),
        <<BS, Q>>, <<Q>>), <<BS, DQ>>, <<DQ>>)

\* processSSEBuffer(eventData, onChunk): the fragments passed to onChunk,
\* in call order
processSSEBuffer(eventData) ==
    LET data == DataOf(eventData)
        tm == TextMatch(data)
    IN  IF data = <<>> THEN <<>>
        ELSE (IF tm.matched /\ tm.text # <<>>
              THEN <<UnescapeIncremental(tm.text)>> ELSE <<>>)
             \o (IF ToolUseMatch(data) THEN <<ToolUseMessage>> ELSE <<>>)


(***************************************************************************)
(* JSON.parse on the token alphabet: objects with string keys, strings,    *)
(* whitespace.  The alphabet has no digit, bracket or literal, so every    *)
(* other input is a SyntaxError.  A parsed string is                       *)
(* [t |-> "str", v |-> tokens]; a parsed object is                         *)
(* [t |-> "obj", v |-> sequence of <<key, value>>].                        *)
(***************************************************************************)
ParseFail == [ok |-> FALSE, val |-> <<>>, pos |-> 0]

Undefined == [t |-> "undefined", v |-> <<>>]

\* the characters an escape \x stands for; <<>> when \x is no JSON escape
EscapeValue(c) ==
    CASE c = DQ -> <<DQ>>
      [] c = BS -> <<BS>>
      [] c = "n" -> <<LF>>
      [] c = "t" -> <<TAB>>
      [] c = "text" -> <<TAB, "ext">>
      [] c = "tool_use" -> <<TAB, "ool_use">>
      [] OTHER -> <<>>

\* the string whose opening quote precedes position i
RECURSIVE ScanString(_, _, _)
ScanString(d, i, acc) ==
    IF i > Len(d) THEN ParseFail
    ELSE IF d[i] = DQ THEN [ok |-> TRUE, val |-> [t |-> "str", v |-> acc], pos |-> i + 1]
    ELSE IF d[i] = BS
         THEN IF i + 1 <= Len(d) /\ EscapeValue(d[i + 1]) # <<>>
              THEN ScanString(d, i + 2, acc \o EscapeValue(d[i + 1]))
              ELSE ParseFail
    ELSE IF d[i] \in {LF, TAB} THEN ParseFail
    ELSE ScanString(d, i + 1, Append(acc, d[i]))

RECURSIVE ParseValue(_, _)
RECURSIVE ParseMembers(_, _, _)

\* the members of an object from position j (a key's opening quote) on
ParseMembers(d, j, acc) ==
    IF ~(j <= Len(d) /\ d[j] = DQ) THEN ParseFail
    ELSE LET key == ScanString(d, j + 1, <<>>)
         IN  IF ~key.ok THEN ParseFail
             ELSE LET c == SkipWS(d, key.pos)
                  IN  IF ~(c <= Len(d) /\ d[c] = COLON) THEN ParseFail
                      ELSE LET val == ParseValue(d, c + 1)
                           IN  IF ~val.ok THEN ParseFail
                               ELSE LET e == SkipWS(d, val.pos)
                                        all == Append(acc, <<key.val.v, val.val>>)
                                    IN  IF e > Len(d) THEN ParseFail
                                        ELSE IF d[e] = COMMA
                                             THEN ParseMembers(d, SkipWS(d, e + 1), all)
                                        ELSE IF d[e] = RB
                                             THEN [ok |-> TRUE,
                                                   val |-> [t |-> "obj", v |-> all],
                                                   pos |-> e + 1]
                                        ELSE ParseFail

ParseValue(d, i) ==
    LET j == SkipWS(d, i)
    IN  IF j > Len(d) THEN ParseFail
        ELSE IF d[j] = DQ THEN ScanString(d, j + 1, <<>>)
        ELSE IF d[j] = LB
             THEN LET m == SkipWS(d, j + 1)
                  IN  IF m <= Len(d) /\ d[m] = RB
                      THEN [ok |-> TRUE, val |-> [t |-> "obj", v |-> <<>>], pos |-> m + 1]
                      ELSE ParseMembers(d, m, <<>>)
        ELSE ParseFail

\* JSON.parse(eventData): ok = FALSE stands for the SyntaxError
JSONParse(d) ==
    LET r == ParseValue(d, 1)
    IN  IF r.ok /\ SkipWS(d, r.pos) = Len(d) + 1 THEN r ELSE ParseFail

\* value.key ( undefined for a string or a missing key; the last of
\* duplicate keys wins )
Get(val, key) ==
    IF val.t # "obj" THEN Undefined
    ELSE LET hits == {i \in 1..Len(val.v) : val.v[i][1] = <<key>>}
         IN  IF hits = {} THEN Undefined ELSE val.v[Max(hits)][2]

Truthy(val) == val.t = "obj" \/ (val.t = "str" /\ val.v # <<>>)

\* the text a value shows as when appended to a string
AsText(val) == IF val.t = "str" THEN val.v ELSE <<"[object Object]">>

\* extractTextFromEvent(eventData): the text, or Undefined for null.  The
\* alphabet has no "chunk", "messageStart", ... key, so those branches
\* never apply.
extractTextFromEvent(eventData) ==
    LET event == Get(eventData, "event")
        text == Get(Get(Get(event, "contentBlockDelta"), "delta"), "text")
    IN  IF Truthy(event) /\ Truthy(text) THEN text
        ELSE IF eventData.t = "str" THEN eventData
        ELSE Undefined

\* one event of parseSSEResponse: the fragments passed to onChunk
parseSSEEvent(event) ==
    LET eventData == DataOf(event)
        tm == TextMatch(eventData)
        parsed == JSONParse(eventData)
        textContent == extractTextFromEvent(parsed.val)
    IN  IF eventData = <<>> THEN <<>>
        ELSE IF tm.matched /\ tm.text # <<>> THEN <<UnescapeBuffered(tm.text)>>
        ELSE IF parsed.ok /\ Truthy(textContent) THEN <<AsText(textContent)>>
        ELSE <<>>

\* the events of a text: sseText.split('\n\n').filter((event) => event.trim())
SelectNonBlank(events) == SelectSeq(events, TrimNonEmpty)

\* parseSSEResponse(sseText, ...): the fragments passed to onChunk, in order
parseSSEFragments(sseText) ==
    LET events == SelectNonBlank(Split(sseText, <<LF, LF>>))
    IN  Concat([i \in 1..Len(events) |-> parseSSEEvent(events[i])])


(***************************************************************************)
(* Error classification (types/guards.ts).  A failure is what a catch      *)
(* clause receives: class is the constructor it is an instance of          *)
(* ("Object" for a plain object), code is its string code as a sequence of *)
(* words (hasCode = FALSE when it has none or a non-string one),           *)
(* hasMessage says it carries a string message.                            *)
(***************************************************************************)
Includes(code, word) == \E i \in 1..Len(code) : code[i] = word

isAWSError(f) == f.hasCode /\ f.hasMessage

classifyError(f) ==
    IF isAWSError(f)
    THEN IF Includes(f.code, "Auth") \/ Includes(f.code, "Credential") THEN "authentication"
         ELSE IF Includes(f.code, "Network") \/ Includes(f.code, "Connection")
              THEN "network"
         ELSE IF Includes(f.code, "Stream") THEN "streaming"
         ELSE "api"
    ELSE IF f.class \in {"TypeError", "SyntaxError"} THEN "validation"
    ELSE "unknown"

\* getErrorCode(error): its name if it has one, else its code
getErrorCode(f) ==
    IF f.class # "Object" THEN <<f.class>>
    ELSE IF f.hasCode THEN f.code
    ELSE <<"UNKNOWN_ERROR">>

Failure(class, hasCode, code) ==
    [class |-> class, hasCode |-> hasCode, code |-> code, hasMessage |-> TRUE]

\* new Error('...') thrown by the service itself
PlainError == Failure("Error", FALSE, <<>>)

\* no failure thrown (so far)
NoFailure == Failure("none", FALSE, <<>>)

\* the failures the channel is taken to throw
Failures ==
    { Failure("Object", TRUE, <<"Network", "ing", "Error">>),
      Failure("Object", TRUE, <<"Auth", "Network">>),
      Failure("Object", TRUE, <<"Timeout", "Error">>),
      Failure("TypeError", FALSE, <<>>) }

NoError == [type |-> "none", code |-> <<>>, retryable |-> FALSE]

ErrorContext(type, code, retryable) ==
    [type |-> type, code |-> code, retryable |-> retryable]

\* Result<boolean, ErrorContext> of reconnect(), and that of no call yet
Result(success, err) == [called |-> TRUE, success |-> success, error |-> err]

NotCalled == [called |-> FALSE, success |-> FALSE, error |-> NoError]

(***************************************************************************)
(* The chat store (stores/chat.ts).  Every operation is an operator from   *)
(* the store's state s (a record of its refs) to the state it leaves.      *)
(* Message ids are naturals; NoId stands for null / undefined.             *)
(* Timestamps are not part of the state.                                   *)
(***************************************************************************)
NoId == 0

\* content.trim().replace(/\s+/g, ' ').slice(0, 4000)
SanitizeLimit == 4000

RECURSIVE TrimStart(_)
TrimStart(t) == IF t # <<>> /\ IsWS(Head(t)) THEN TrimStart(Tail(t)) ELSE t

RECURSIVE TrimEnd(_)
TrimEnd(t) == IF t # <<>> /\ IsWS(t[Len(t)]) THEN TrimEnd(Take(t, Len(t) - 1)) ELSE t

Trim(t) == TrimEnd(TrimStart(t))

RECURSIVE CollapseWS(_)
CollapseWS(t) ==
    IF t = <<>> THEN <<>>
    ELSE IF IsWS(Head(t)) THEN <<SP>> \o CollapseWS(TrimStart(t))
    ELSE <<Head(t)>> \o CollapseWS(Tail(t))

sanitizeMessageContent(content) ==
    LET c == CollapseWS(Trim(content))
    IN  Take(c, IF Len(c) < SanitizeLimit THEN Len(c) ELSE SanitizeLimit)

\* messages.value.findIndex((m) => m.id === messageId): 0 for -1
FindIndex(msgs, messageId) ==
    IF \E i \in 1..Len(msgs) : msgs[i].id = messageId
    THEN Min({i \in 1..Len(msgs) : msgs[i].id = messageId})
    ELSE 0

RemoveAt(msgs, i) == Take(msgs, i - 1) \o Drop(msgs, i)

updateStreamingStatus(s, state, messageId, progress) ==
    [s EXCEPT !.streamingStatus =
        [@ EXCEPT !.state = state, !.messageId = messageId, !.progress = progress]]

addMessage(s, message) ==
    [s EXCEPT !.messages = Append(@, message),
              !.currentSession = [@ EXCEPT !.messageCount = @ + 1]]

UserMessage(id, content) ==
    [id |-> id, content |-> content, sender |-> "user",
     isStreaming |-> FALSE, isComplete |-> TRUE]

AgentMessage(id, content, streaming) ==
    [id |-> id, content |-> content, sender |-> "agent",
     isStreaming |-> streaming, isComplete |-> ~streaming]

\* (not the program: an addUserMessage that keeps an empty sanitized text)
addUserMessageKeepingEmpty(s, id, content) ==
    addMessage(s, UserMessage(id, sanitizeMessageContent(content)))

\* addUserMessage(content), the new message taking the id given; it
\* returns null exactly when the store is left as it was
addUserMessage(s, id, content) ==
    IF sanitizeMessageContent(content) = <<>> THEN s
    ELSE addMessage(s, UserMessage(id, sanitizeMessageContent(content)))

addAgentMessage(s, id, content, streaming) ==
    LET t == addMessage(s, AgentMessage(id, content, streaming))
    IN  IF streaming
        THEN [t EXCEPT !.currentStreamingMessageId = id, !.isStreaming = TRUE]
        ELSE t

\* (not the program: an append that puts the fragment in front)
appendToMessagePrepend(s, messageId, content) ==
    LET i == FindIndex(s.messages, messageId)
    IN  IF i = 0 THEN s
        ELSE [s EXCEPT !.messages[i].content = content \o @]

\* (not the program: an append that replaces the content by the fragment)
appendToMessageReplace(s, messageId, content) ==
    LET i == FindIndex(s.messages, messageId)
    IN  IF i = 0 THEN s
        ELSE [s EXCEPT !.messages[i].content = content]

\* (not the program: an append that creates the message it does not find)
appendToMessageCreating(s, messageId, content) ==
    LET i == FindIndex(s.messages, messageId)
    IN  IF i = 0 THEN addMessage(s, AgentMessage(messageId, content, FALSE))
        ELSE [s EXCEPT !.messages[i].content = @ \o content]

appendToMessage(s, messageId, content) ==
    LET i == FindIndex(s.messages, messageId)
    IN  IF i = 0 THEN s
        ELSE [s EXCEPT !.messages[i].content = @ \o content]

\* what appendToMessage(messageId, content) returns
appendToMessageReturns(s, messageId) == FindIndex(s.messages, messageId) # 0

\* (not the program: a completion that adds to the progress on every call)
completeMessageCounting(s, messageId) ==
    LET i == FindIndex(s.messages, messageId)
        t == [s EXCEPT !.messages[i].isStreaming = FALSE,
                       !.messages[i].isComplete = TRUE]
    IN  IF i = 0 THEN s
        ELSE [t EXCEPT !.currentStreamingMessageId = NoId,
                       !.isStreaming = FALSE,
                       !.streamingStatus = [@ EXCEPT !.state = "complete",
                                                     !.progress = @ + 100]]

\* (not the program: a completion that leaves isComplete as it was)
completeMessageStreamingOnly(s, messageId) ==
    LET i == FindIndex(s.messages, messageId)
        t == [s EXCEPT !.messages[i].isStreaming = FALSE]
    IN  IF i = 0 THEN s
        ELSE IF s.currentStreamingMessageId = messageId
             THEN updateStreamingStatus(
                      [t EXCEPT !.currentStreamingMessageId = NoId,
                                !.isStreaming = FALSE],
                      "complete", NoId, 100)
             ELSE t

completeMessage(s, messageId) ==
    LET i == FindIndex(s.messages, messageId)
        t == [s EXCEPT !.messages[i].isStreaming = FALSE,
                       !.messages[i].isComplete = TRUE]
    IN  IF i = 0 THEN s
        ELSE IF s.currentStreamingMessageId = messageId
             THEN updateStreamingStatus(
                      [t EXCEPT !.currentStreamingMessageId = NoId,
                                !.isStreaming = FALSE],
                      "complete", NoId, 100)
             ELSE t

\* (not the program: a removal that leaves messageCount as it was)
removeMessageKeepingCount(s, messageId) ==
    LET i == FindIndex(s.messages, messageId)
    IN  IF i = 0 THEN s
        ELSE [s EXCEPT !.messages = RemoveAt(@, i)]

removeMessage(s, messageId) ==
    LET i == FindIndex(s.messages, messageId)
    IN  IF i = 0 THEN s
        ELSE [s EXCEPT !.messages = RemoveAt(@, i),
                       !.currentSession =
                           [@ EXCEPT !.messageCount = IF @ - 1 > 0 THEN @ - 1 ELSE 0]]

clearMessages(s) ==
    updateStreamingStatus(
        [s EXCEPT !.messages = <<>>,
                  !.currentStreamingMessageId = NoId,
                  !.isStreaming = FALSE,
                  !.currentSession = [@ EXCEPT !.messageCount = 0]],
        "idle", NoId, 0)

startStreaming(s, messageId) ==
    LET t == updateStreamingStatus(
                 [s EXCEPT !.currentStreamingMessageId = messageId,
                           !.isStreaming = TRUE],
                 "streaming", messageId, 0)
    IN  [t EXCEPT !.streamingStatus = [@ EXCEPT !.error = NoError]]

\* stopStreaming(messageId?): NoId for a call without argument
stopStreaming(s, messageId) ==
    IF messageId = NoId \/ s.currentStreamingMessageId = messageId
    THEN LET t == IF s.currentStreamingMessageId # NoId
                  THEN completeMessage(s, s.currentStreamingMessageId)
                  ELSE s
         IN  updateStreamingStatus(
                 [t EXCEPT !.currentStreamingMessageId = NoId,
                           !.isStreaming = FALSE],
                 "complete", NoId, 100)
    ELSE s

\* setError(errorContext): NoError for null
setError(s, errorContext) ==
    LET t == [s EXCEPT !.error = errorContext]
    IN  IF errorContext # NoError
        THEN [t EXCEPT !.streamingStatus =
                 [@ EXCEPT !.state = "error", !.error = errorContext]]
        ELSE t

clearError(s) ==
    LET t == [s EXCEPT !.error = NoError]
    IN  IF s.streamingStatus.state = "error"
        THEN [t EXCEPT !.streamingStatus = [@ EXCEPT !.state = "idle", !.error = NoError]]
        ELSE t

isUserMessage(message) == message.sender = "user"

\* (not the program: a search that finds the first user message)
FirstUserIndex(msgs) ==
    IF \E i \in 1..Len(msgs) : isUserMessage(msgs[i])
    THEN Min({i \in 1..Len(msgs) : isUserMessage(msgs[i])})
    ELSE 0

\* [...messages.value].reverse().find(isUserMessage): its index, 0 if none
LastUserIndex(msgs) ==
    IF \E i \in 1..Len(msgs) : isUserMessage(msgs[i])
    THEN Max({i \in 1..Len(msgs) : isUserMessage(msgs[i])})
    ELSE 0

retryLastMessage(s) == IF LastUserIndex(s.messages) # 0 THEN clearError(s) ELSE s

\* what retryLastMessage() returns: the id of the message, NoId for null
retryLastMessageReturns(s) ==
    IF LastUserIndex(s.messages) # 0 THEN s.messages[LastUserIndex(s.messages)].id ELSE NoId

\* setConnectionStatus(status): given is "true", "false" or "absent", the
\* isConnected key of the partial status
setConnectionStatus(s, given) ==
    LET conn == IF given = "absent" THEN s.connectionStatus.isConnected
                ELSE given = "true"
    IN  [s EXCEPT !.isConnected = conn,
                  !.connectionStatus =
                      [isConnected |-> conn,
                       connectionAttempts |->
                           IF given = "true" THEN 0 ELSE @.connectionAttempts + 1]]

connect(s) == clearError(setConnectionStatus(s, "true"))

disconnect(s) == stopStreaming(setConnectionStatus(s, "false"), NoId)

startNewSession(s) ==
    clearError(clearMessages(
        [s EXCEPT !.currentSession = [messageCount |-> 0, isActive |-> TRUE]]))

endSession(s) ==
    disconnect([s EXCEPT !.currentSession = [@ EXCEPT !.isActive = FALSE]])

resetState(s) ==
    LET t == updateStreamingStatus(disconnect(clearError(clearMessages(s))),
                                   "idle", NoId, 0)
    IN  [t EXCEPT !.streamingStatus = [@ EXCEPT !.error = NoError],
                  !.connectionStatus =
                      [isConnected |-> FALSE, connectionAttempts |-> 0]]

\* the assignments currentSession.lastActivity = new Date() an operation
\* makes when called on store s (timestamps themselves are not kept)
lastActivityAssignments(op, s, messageId, content) ==
    CASE op = "addUserMessage" ->
             IF sanitizeMessageContent(content) = <<>> THEN 0 ELSE 1
      [] op = "addAgentMessage" -> 1
      [] op = "appendToMessage" -> IF FindIndex(s.messages, messageId) # 0 THEN 1 ELSE 0
      [] op = "completeMessage" -> 0
      [] op = "removeMessage" -> 0

isWaitingForResponse(s) == s.isStreaming \/ s.streamingStatus.state = "connecting"

canSendMessage(s) == s.isConnected /\ ~isWaitingForResponse(s) /\ s.error = NoError


(***************************************************************************)
(* State.                                                                  *)
(***************************************************************************)
VARIABLES
    \* stores/chat.ts
    messages, isStreaming, currentStreamingMessageId, error, isConnected,
    streamingStatus, connectionStatus, currentSession,
    \* the number of message ids handed out so far (ids are unique)
    nextId,
    \* services/aws-bedrock.ts: client # null, this.connectionStatus
    client, serviceStatus,
    \* what the last call of reconnect() returned
    reconnected,
    \* the exchanges started by sendMessageWithStreaming
    ex,
    \* ChatContainer.vue: awsService # null, isInitializing, and whether
    \* the component is not yet mounted ("no"), mounted ("yes") or
    \* unmounted ("gone")
    awsService, isInitializing, mounted

storeVars == <<messages, isStreaming, currentStreamingMessageId, error, isConnected,
               streamingStatus, connectionStatus, currentSession>>

serviceVars == <<client, serviceStatus, reconnected, ex>>

containerVars == <<awsService, isInitializing, mounted>>

vars == <<storeVars, nextId, serviceVars, containerVars>>

\* the store's refs as one record, and the step that leaves them as s
Store ==
    [messages |-> messages, isStreaming |-> isStreaming,
     currentStreamingMessageId |-> currentStreamingMessageId, error |-> error,
     isConnected |-> isConnected, streamingStatus |-> streamingStatus,
     connectionStatus |-> connectionStatus, currentSession |-> currentSession]

SetStore(s) ==
    /\ messages' = s.messages
    /\ isStreaming' = s.isStreaming
    /\ currentStreamingMessageId' = s.currentStreamingMessageId
    /\ error' = s.error
    /\ isConnected' = s.isConnected
    /\ streamingStatus' = s.streamingStatus
    /\ connectionStatus' = s.connectionStatus
    /\ currentSession' = s.currentSession

InitStore ==
    /\ messages = <<>>
    /\ isStreaming = FALSE
    /\ currentStreamingMessageId = NoId
    /\ error = NoError
    /\ isConnected = FALSE
    /\ streamingStatus =
           [state |-> "idle", messageId |-> NoId, progress |-> 0, error |-> NoError]
    /\ connectionStatus = [isConnected |-> FALSE, connectionAttempts |-> 0]
    /\ currentSession = [messageCount |-> 0, isActive |-> TRUE]
    /\ nextId = 1

(***************************************************************************)
(* The exchange: one call of sendMessageWithStreaming, cut at its awaits.  *)
(* calls is the sequence of callback invocations it has made so far.       *)
(***************************************************************************)
Exchanges == 1..MaxExchanges

IdleExchange ==
    [pc |-> "idle", message |-> <<>>, sent |-> 0, kind |-> "none",
     payload |-> <<>>, raw |-> <<>>, pending |-> <<>>, buffer |-> <<>>,
     calls |-> <<>>, thrown |-> NoFailure, result |-> "none", agentId |-> NoId]

Call(cb, text, err) == [cb |-> cb, text |-> text, err |-> err]

OnChunkCalls(fragments) ==
    [i \in 1..Len(fragments) |-> Call("onChunk", fragments[i], NoError)]

OnComplete == Call("onComplete", <<>>, NoError)

OnError(ctx) == Call("onError", <<>>, ctx)

\* this.updateConnectionStatus(updates): given as in setConnectionStatus
updateConnectionStatus(st, given) ==
    IF given = "true" THEN [isConnected |-> TRUE, connectionAttempts |-> 0]
    ELSE IF given = "false"
         THEN [isConnected |-> FALSE, connectionAttempts |-> st.connectionAttempts + 1]
    ELSE st

\* message validation: !message || !message.trim()
IsEmptyMessage(message) == ~TrimNonEmpty(message)

ValidationError == ErrorContext("validation", <<"INVALID_MESSAGE">>, FALSE)

\* the catch clause of sendMessageWithStreaming
CaughtError(f) ==
    ErrorContext(classifyError(f), getErrorCode(f),
                 classifyError(f) \in {"network", "api"})

\* (not the program: a catch clause that classifies what was thrown)
ReadableStreamErrorClassified(f) == CaughtError(f)

\* the catch clause of processReadableStream
ReadableStreamError(f) == ErrorContext("streaming", <<"READABLE_STREAM_ERROR">>, FALSE)

\* the events to process and the carry-over, after buffer += chunk:
\* events = buffer.split('\n\n'); buffer = events.pop() || ''
CompleteEvents(buffer) ==
    LET events == Split(buffer, <<LF, LF>>)
    IN  Take(events, Len(events) - 1)

CarryOver(buffer) ==
    LET events == Split(buffer, <<LF, LF>>)
    IN  events[Len(events)]

\* (not the program: a loop that stops at the first event without a fragment)
RECURSIVE ProcessEventsUntilMalformed(_)
ProcessEventsUntilMalformed(events) ==
    IF events = <<>> THEN <<>>
    ELSE IF ~TrimNonEmpty(Head(events)) THEN ProcessEventsUntilMalformed(Tail(events))
    ELSE IF processSSEBuffer(Head(events)) = <<>> THEN <<>>
    ELSE processSSEBuffer(Head(events)) \o ProcessEventsUntilMalformed(Tail(events))

\* for (const event of events) if (event.trim()) processSSEBuffer(event, onChunk)
ProcessEvents(events) ==
    LET kept == SelectNonBlank(events)
    IN  Concat([i \in 1..Len(kept) |-> processSSEBuffer(kept[i])])

\* processReadableStream, one read that yields value
StreamValue(x, value) ==
    LET dec == DecodeStream(x.pending, value)
        buffer == x.buffer \o dec.text
    IN  [x EXCEPT !.pending = dec.pending,
                  !.buffer = CarryOver(buffer),
                  !.calls = @ \o OnChunkCalls(ProcessEvents(CompleteEvents(buffer)))]

\* (not the program: an end of stream that leaves the carry-over unprocessed)
StreamDoneNoFlush(x) ==
    [x EXCEPT !.calls = Append(@, OnComplete), !.pc = "done", !.result = "success"]

\* (not the program: an end of stream that completes before the carry-over)
StreamDoneCompleteFirst(x) ==
    [x EXCEPT !.calls = @ \o <<OnComplete>>
                         \o OnChunkCalls(IF TrimNonEmpty(x.buffer)
                                         THEN processSSEBuffer(x.buffer) ELSE <<>>),
              !.pc = "done",
              !.result = "success"]

\* processReadableStream, the read that yields done, and the return of
\* sendMessageWithStreaming after it
StreamDone(x) ==
    [x EXCEPT !.calls = @ \o OnChunkCalls(IF TrimNonEmpty(x.buffer)
                                          THEN processSSEBuffer(x.buffer) ELSE <<>>)
                         \o <<OnComplete>>,
              !.pc = "done",
              !.result = "success"]

\* (not the program: a read failure followed by onComplete)
StreamThrowsThenComplete(x, f) ==
    [x EXCEPT !.calls = @ \o <<OnError(ReadableStreamError(f)), OnComplete>>,
              !.thrown = f, !.pc = "done", !.result = "success"]

\* processReadableStream, a read that throws f: its catch clause reports
\* and returns normally, so sendMessageWithStreaming returns success
StreamThrows(x, f) ==
    [x EXCEPT !.calls = Append(@, OnError(ReadableStreamError(f))),
              !.thrown = f, !.pc = "done", !.result = "success"]

\* parseSSEResponse(textResponse, ...) and the return after it
Buffered(x, textResponse) ==
    [x EXCEPT !.calls = @ \o OnChunkCalls(parseSSEFragments(textResponse))
                         \o <<OnComplete>>,
              !.pc = "done",
              !.result = "success"]

\* (not the program: a catch clause that returns without reporting)
CaughtSilent(x, f) ==
    [x EXCEPT !.thrown = f, !.pc = "done", !.result = "failure"]

\* the catch clause of sendMessageWithStreaming
Caught(x, f) ==
    [x EXCEPT !.calls = Append(@, OnError(CaughtError(f))),
              !.thrown = f, !.pc = "done", !.result = "failure"]


(***************************************************************************)
(* The inputs of the model: outbound messages and channel payloads.  A     *)
(* payload is up to MaxBlocks pieces; a piece is one event block with or   *)
(* without what separates it from the next.                                *)
(***************************************************************************)
OutboundMessages == { <<>>, <<SP>>, <<LF, SP>>, <<SP, "H", "i">> }

\* data: {'contentBlockDelta': {'text': '<text>'}}
DeltaEvent(text) ==
    DataPrefix \o <<LB>> \o CBDLit \o <<SP, LB>> \o TextLit \o <<SP, Q>> \o text
        \o <<Q, RB, RB>>

\* data: {'stopReason': 'tool_use'}
ToolUseEvent == DataPrefix \o <<LB>> \o StopReasonLit \o <<SP>> \o ToolUseLit \o <<RB>>

\* data: {"event":       (cut short: no JSON, no delta)
MalformedEvent == DataPrefix \o <<LB, DQ, "event", DQ, COLON>>

\* data: "i"             (a JSON string)
JsonStringEvent == DataPrefix \o <<DQ, "i", DQ>>

Pieces ==
    { DeltaEvent(<<"H", ByteC3, ByteA9>>) \o <<LF, LF>>,
      DeltaEvent(<<"i", BS, "n">>) \o <<LF, LF, LF>>,
      ToolUseEvent \o <<LF, LF>>,
      MalformedEvent \o <<LF, LF>>,
      JsonStringEvent \o <<LF>>,
      DeltaEvent(<<"H">>) }

RECURSIVE PayloadsOf(_)
PayloadsOf(n) ==
    IF n = 0 THEN {<<>>}
    ELSE PayloadsOf(n - 1) \cup {p \o q : p \in PayloadsOf(n - 1), q \in Pieces}

Payloads == PayloadsOf(MaxBlocks)

\* data: {'contentBlockDelta': {'text': 'H'}, 'stopReason': 'tool_use'}
DeltaToolUseEvent ==
    DataPrefix \o <<LB>> \o CBDLit \o <<SP, LB>> \o TextLit \o <<SP, Q, "H", Q, RB, COMMA, SP>>
        \o StopReasonLit \o <<SP>> \o ToolUseLit \o <<RB>>

\* three events, the second one malformed
ScenarioD ==
    DeltaEvent(<<"H", ByteC3, ByteA9>>) \o <<LF, LF>> \o MalformedEvent \o <<LF, LF>>
        \o DeltaEvent(<<"i", BS, "n">>) \o <<LF, LF, LF>>

\* payloads longer than MaxBlocks pieces, or with an event of two shapes
ScenarioPayloads == { ScenarioD, DeltaToolUseEvent \o <<LF, LF>> }

ResponseKinds == {"missing", "stream", "buffered", "unsupported"}

(***************************************************************************)
(* The callbacks handleSendMessage passes (ChatContainer.vue): each        *)
(* invocation applied to the store, for the placeholder agentId.           *)
(***************************************************************************)
ApplyCall(s, agentId, call) ==
    CASE call.cb = "onChunk" -> appendToMessage(s, agentId, call.text)
      [] call.cb = "onComplete" -> completeMessage(s, agentId)
      [] call.cb = "onError" -> removeMessage(setError(s, call.err), agentId)

RECURSIVE ApplyCalls(_, _, _)
ApplyCalls(s, agentId, calls) ==
    IF calls = <<>> THEN s
    ELSE ApplyCalls(ApplyCall(s, agentId, Head(calls)), agentId, Tail(calls))

(***************************************************************************)
(* Steps of the service.  Exchange e goes from ex[e] to x; the callbacks   *)
(* it invokes on the way are the new entries of x.calls.  An exchange      *)
(* started by handleSendMessage (agentId # NoId) applies them to the       *)
(* store; one started by another caller only has them recorded.            *)
(***************************************************************************)
NewCalls(e, x) == Drop(x.calls, Len(ex[e].calls))

ExchangeStep(e, x, given) ==
    /\ ex' = [ex EXCEPT ![e] = x]
    /\ serviceStatus' = updateConnectionStatus(serviceStatus, given)
    /\ IF x.agentId # NoId
       THEN SetStore(ApplyCalls(Store, x.agentId, NewCalls(e, x)))
       ELSE UNCHANGED storeVars
    /\ UNCHANGED <<nextId, client, reconnected, containerVars>>

\* (not the program: a start that skips the validation of the message)
BeginUnvalidated(x, message, agentId) ==
    [x EXCEPT !.message = message, !.agentId = agentId, !.pc = "init"]

\* sendMessageWithStreaming up to its first await
Begin(x, message, agentId) ==
    IF IsEmptyMessage(message)
    THEN [x EXCEPT !.message = message, !.agentId = agentId,
                   !.calls = Append(@, OnError(ValidationError)),
                   !.pc = "done", !.result = "failure"]
    ELSE [x EXCEPT !.message = message, !.agentId = agentId, !.pc = "init"]

\* await this.ensureInitialized(); await this.getClient(); client.send(command)
Initialized(e) ==
    /\ ex[e].pc = "init"
    /\ IF client
       THEN ExchangeStep(e, [ex[e] EXCEPT !.pc = "send", !.sent = @ + 1], "absent")
       ELSE ExchangeStep(e, Caught(ex[e], PlainError), "false")

\* await client.send(command) throws
SendThrows(e, f) ==
    /\ ex[e].pc = "send"
    /\ ExchangeStep(e, Caught(ex[e], f), "false")

\* await client.send(command) returns a response without a usable body
SendReturnsNoBody(e, kind) ==
    /\ ex[e].pc = "send"
    /\ kind \in {"missing", "unsupported"}
    /\ ExchangeStep(e, Caught([ex[e] EXCEPT !.kind = kind], PlainError), "false")

\* await client.send(command) returns a ReadableStream
SendReturnsStream(e, payload) ==
    /\ ex[e].pc = "send"
    /\ ExchangeStep(e, [ex[e] EXCEPT !.kind = "stream", !.payload = payload,
                                     !.raw = payload, !.pc = "read"], "true")

\* await client.send(command) returns a body with transformToString only
SendReturnsBuffered(e, payload) ==
    /\ ex[e].pc = "send"
    /\ ExchangeStep(e, [ex[e] EXCEPT !.kind = "buffered", !.payload = payload,
                                     !.pc = "transform"], "true")

\* await reader.read() yields the next n bytes
ReadValue(e, n) ==
    /\ ex[e].pc = "read"
    /\ n \in 1..Len(ex[e].raw)
    /\ ExchangeStep(e, StreamValue([ex[e] EXCEPT !.raw = Drop(@, n)],
                                   Take(ex[e].raw, n)), "absent")

\* await reader.read() yields done
ReadDone(e) ==
    /\ ex[e].pc = "read"
    /\ ex[e].raw = <<>>
    /\ ExchangeStep(e, StreamDone(ex[e]), "absent")

\* await reader.read() throws
ReadThrows(e, f) ==
    /\ ex[e].pc = "read"
    /\ ExchangeStep(e, StreamThrows(ex[e], f), "absent")

\* await response.response.transformToString() returns
TransformReturns(e) ==
    /\ ex[e].pc = "transform"
    /\ ExchangeStep(e, Buffered(ex[e], TransformToString(ex[e].payload)), "absent")

\* await response.response.transformToString() throws
TransformThrows(e, f) ==
    /\ ex[e].pc = "transform"
    /\ ExchangeStep(e, Caught(ex[e], f), "false")

(***************************************************************************)
(* SpecService: one exchange of the service, started by a caller that      *)
(* only records the callbacks.                                             *)
(***************************************************************************)
InitService ==
    /\ InitStore
    /\ client \in BOOLEAN
    /\ serviceStatus = [isConnected |-> client,
                        connectionAttempts |-> IF client THEN 0 ELSE 1]
    /\ ex = [e \in Exchanges |-> IdleExchange]
    /\ reconnected = NotCalled
    /\ awsService = FALSE
    /\ isInitializing = TRUE
    /\ mounted = "no"

SendMessageWithStreaming(e, message) ==
    /\ ex[e].pc = "idle"
    /\ ExchangeStep(e, Begin(ex[e], message, NoId), "absent")

NextService ==
    \E e \in {Min(Exchanges)} :
        \/ \E message \in OutboundMessages : SendMessageWithStreaming(e, message)
        \/ Initialized(e)
        \/ \E f \in Failures : SendThrows(e, f)
        \/ \E kind \in ResponseKinds : SendReturnsNoBody(e, kind)
        \/ \E payload \in Payloads \cup ScenarioPayloads : SendReturnsStream(e, payload)
        \/ \E payload \in Payloads \cup ScenarioPayloads : SendReturnsBuffered(e, payload)
        \/ \E n \in 1..Len(ex[e].raw) : ReadValue(e, n)
        \/ ReadDone(e)
        \/ \E f \in Failures : ReadThrows(e, f)
        \/ TransformReturns(e)
        \/ \E f \in Failures : TransformThrows(e, f)

SpecService == InitService /\ [][NextService]_vars



(***************************************************************************)
(* Spec: the store alone, its operations called in any order with any      *)
(* arguments.  An id argument is the id of a message created so far or     *)
(* ForeignId, an id no message has.                                        *)
(***************************************************************************)

MaxAttempts == MaxIds - 1

ForeignId == MaxIds + 1

KnownIds == (1..(nextId - 1)) \cup {ForeignId}

UserInputs == { <<SP, LF>>, <<SP, "H", SP, LF, "i", SP>> }

Fragments == { <<"i">> }

ErrorContexts == { ValidationError }

\* contents grow no longer than the longest user message
MaxContent == Max({Len(sanitizeMessageContent(content)) : content \in UserInputs})

\* the bounds of the model hold of store state s
WithinBounds(s) ==
    /\ \A i \in 1..Len(s.messages) : Len(s.messages[i].content) <= MaxContent
    /\ s.connectionStatus.connectionAttempts <= MaxAttempts

\* a store operation that leaves s, having created `created` messages
StoreStep(s, created) ==
    /\ WithinBounds(s)
    /\ nextId + created <= MaxIds + 1
    /\ SetStore(s)
    /\ nextId' = nextId + created
    /\ UNCHANGED <<serviceVars, containerVars>>

Created(s) == Len(s.messages) - Len(messages)

DoAddUserMessage(content) ==
    StoreStep(addUserMessage(Store, nextId, content),
              Created(addUserMessage(Store, nextId, content)))

DoAddAgentMessage(content, streaming) ==
    StoreStep(addAgentMessage(Store, nextId, content, streaming), 1)

DoAppendToMessage(id, content) == StoreStep(appendToMessage(Store, id, content), 0)

DoCompleteMessage(id) == StoreStep(completeMessage(Store, id), 0)

DoRemoveMessage(id) == StoreStep(removeMessage(Store, id), 0)

DoClearMessages == StoreStep(clearMessages(Store), 0)

DoStartStreaming(id) == StoreStep(startStreaming(Store, id), 0)

DoStopStreaming(id) == StoreStep(stopStreaming(Store, id), 0)

DoSetError(ctx) == StoreStep(setError(Store, ctx), 0)

DoClearError == StoreStep(clearError(Store), 0)

DoRetryLastMessage == StoreStep(retryLastMessage(Store), 0)

DoSetConnectionStatus(given) == StoreStep(setConnectionStatus(Store, given), 0)

DoConnect == StoreStep(connect(Store), 0)

DoDisconnect == StoreStep(disconnect(Store), 0)

DoStartNewSession == StoreStep(startNewSession(Store), 0)

DoEndSession == StoreStep(endSession(Store), 0)

DoResetState == StoreStep(resetState(Store), 0)

Init ==
    /\ InitStore
    /\ client = FALSE
    /\ serviceStatus = [isConnected |-> FALSE, connectionAttempts |-> 0]
    /\ ex = [e \in Exchanges |-> IdleExchange]
    /\ reconnected = NotCalled
    /\ awsService = FALSE
    /\ isInitializing = TRUE
    /\ mounted = "no"

Next ==
    \/ \E content \in UserInputs : DoAddUserMessage(content)
    \/ \E content \in {<<>>, <<"H">>}, streaming \in BOOLEAN :
           DoAddAgentMessage(content, streaming)
    \/ \E id \in KnownIds, content \in Fragments : DoAppendToMessage(id, content)
    \/ \E id \in KnownIds : DoCompleteMessage(id)
    \/ \E id \in KnownIds : DoRemoveMessage(id)
    \/ DoClearMessages
    \/ \E id \in KnownIds : DoStartStreaming(id)
    \/ \E id \in KnownIds \cup {NoId} : DoStopStreaming(id)
    \/ \E ctx \in ErrorContexts \cup {NoError} : DoSetError(ctx)
    \/ DoClearError
    \/ DoRetryLastMessage
    \/ \E given \in {"true", "false", "absent"} : DoSetConnectionStatus(given)
    \/ DoConnect
    \/ DoDisconnect
    \/ DoStartNewSession
    \/ DoEndSession
    \/ DoResetState

Spec == Init /\ [][Next]_vars

(***************************************************************************)
(* SpecApp: ChatContainer.vue mounted on the store and the service.  The   *)
(* handlers are those its template binds; a handler runs to the first      *)
(* await it suspends at, which is the first await of                       *)
(* sendMessageWithStreaming.  An exchange keeps running, and its callbacks *)
(* keep acting on the store, whatever the handlers do meanwhile.           *)
(***************************************************************************)
AppMaxIds == MaxIds + 2

\* what MessageInput emits: the trimmed, non-empty input
AppMessages == { <<"H", SP, SP, "i">> }

AppPayloads ==
    { DeltaEvent(<<"H", ByteC3, ByteA9>>) \o <<LF, LF>> \o DeltaEvent(<<"i", BS, "n">>)
          \o <<LF, LF, LF>>,
      ToolUseEvent \o <<LF, LF>> \o DeltaEvent(<<"H">>) }

AppFailures == { Failure("Object", TRUE, <<"Network", "ing", "Error">>),
                 Failure("TypeError", FALSE, <<>>) }

\* the chunks a read yields here end after a line feed or with the payload
ChunkEnds(raw) == {n \in 1..Len(raw) : n = Len(raw) \/ raw[n] = LF}

InitializationFailed == ErrorContext("api", <<"INITIALIZATION_FAILED">>, TRUE)

ComponentError == ErrorContext("unknown", <<"COMPONENT_ERROR">>, FALSE)

InitOutcomes == {"ok", "clientError", "configError"}

\* an exchange that has not started or has returned leaves its slot free
FreeSlots == {e \in Exchanges : ex[e].pc \in {"idle", "done"}}

\* initializeService() entered with the store as s; outcome is what
\* new AWSBedrockService() does: it throws (the configuration is invalid),
\* or returns a service whose client could or could not be constructed
initializeService(s, outcome) ==
    /\ isInitializing' = FALSE
    /\ IF outcome = "configError"
       THEN /\ SetStore(setError(s, InitializationFailed))
            /\ UNCHANGED <<awsService, client, serviceStatus>>
       ELSE /\ SetStore(connect(s))
            /\ awsService' = TRUE
            /\ client' = (outcome = "ok")
            /\ serviceStatus' =
                   updateConnectionStatus([isConnected |-> FALSE, connectionAttempts |-> 0],
                                          IF outcome = "ok" THEN "true" ELSE "false")
    /\ UNCHANGED <<nextId, ex, reconnected>>

\* handleSendMessage(message) entered with the store as s
handleSendMessage(s, message) ==
    IF ~(awsService /\ canSendMessage(s) /\ ~isInitializing)
           \/ sanitizeMessageContent(message) = <<>>
    THEN /\ SetStore(s)
         /\ UNCHANGED <<nextId, serviceVars, containerVars>>
    ELSE /\ nextId + 2 <= AppMaxIds + 1
         /\ FreeSlots # {}
         /\ LET e == Min(FreeSlots)
                agentId == nextId + 1
                s2 == addAgentMessage(addUserMessage(s, nextId, message),
                                      agentId, <<>>, TRUE)
                x == Begin(IdleExchange, message, agentId)
            IN  /\ ex' = [ex EXCEPT ![e] = x]
                /\ SetStore(ApplyCalls(s2, agentId, x.calls))
         /\ nextId' = nextId + 2
         /\ UNCHANGED <<client, serviceStatus, reconnected, containerVars>>

\* onMounted
Mount(outcome) ==
    /\ mounted = "no"
    /\ mounted' = "yes"
    /\ initializeService(Store, outcome)

\* @send-message
HandleSendMessage(message) ==
    /\ mounted = "yes"
    /\ handleSendMessage(Store, message)

\* the Retry button of the error banner: v-if="error.retryable"
HandleRetryError ==
    /\ mounted = "yes"
    /\ error # NoError
    /\ error.retryable
    /\ LET s == clearError(Store)
       IN  IF ~s.isConnected
           THEN /\ \E outcome \in InitOutcomes : initializeService(s, outcome)
                /\ UNCHANGED mounted
           ELSE IF LastUserIndex(s.messages) # 0
                THEN handleSendMessage(retryLastMessage(s),
                         s.messages[LastUserIndex(s.messages)].content)
                ELSE /\ SetStore(retryLastMessage(s))
                     /\ UNCHANGED <<nextId, serviceVars, containerVars>>

\* the Dismiss button of the error banner: v-if="error"
HandleDismissError ==
    /\ mounted = "yes"
    /\ error # NoError
    /\ SetStore(clearError(Store))
    /\ UNCHANGED <<nextId, serviceVars, containerVars>>

\* the Cancel button of the streaming indicator: v-if="isStreaming"
HandleCancelStreaming ==
    /\ mounted = "yes"
    /\ isStreaming
    /\ SetStore(stopStreaming(Store, NoId))
    /\ UNCHANGED <<nextId, serviceVars, containerVars>>

\* the window's error and unhandledrejection events
HandleError ==
    /\ mounted = "yes"
    /\ SetStore(setError(Store, ComponentError))
    /\ UNCHANGED <<nextId, serviceVars, containerVars>>

\* onUnmounted: awsService.dispose(), chatStore.endSession()
Unmount ==
    /\ mounted = "yes"
    /\ mounted' = "gone"
    /\ client' = (client /\ ~awsService)
    /\ serviceStatus' = IF awsService
                        THEN updateConnectionStatus(serviceStatus, "false")
                        ELSE serviceStatus
    /\ SetStore(endSession(Store))
    /\ UNCHANGED <<nextId, ex, reconnected, awsService, isInitializing>>

NextApp ==
    \/ \E outcome \in InitOutcomes : Mount(outcome)
    \/ \E message \in AppMessages : HandleSendMessage(message)
    \/ HandleRetryError
    \/ HandleDismissError
    \/ HandleCancelStreaming
    \/ HandleError
    \/ Unmount
    \/ \E e \in Exchanges :
        \/ Initialized(e)
        \/ \E f \in AppFailures : SendThrows(e, f)
        \/ \E kind \in ResponseKinds : SendReturnsNoBody(e, kind)
        \/ \E payload \in AppPayloads : SendReturnsStream(e, payload)
        \/ \E payload \in AppPayloads : SendReturnsBuffered(e, payload)
        \/ \E n \in ChunkEnds(ex[e].raw) : ReadValue(e, n)
        \/ ReadDone(e)
        \/ \E f \in AppFailures : ReadThrows(e, f)
        \/ TransformReturns(e)
        \/ \E f \in AppFailures : TransformThrows(e, f)

SpecApp == Init /\ [][NextApp]_vars

(***************************************************************************)
(* SpecSession: the application, and next to its handlers the store's      *)
(* startNewSession() and clearMessages() called at any time while the      *)
(* component is mounted; the exchanges already started keep running.       *)
(***************************************************************************)
StartNewSession ==
    /\ mounted = "yes"
    /\ SetStore(startNewSession(Store))
    /\ UNCHANGED <<nextId, serviceVars, containerVars>>

ClearMessages ==
    /\ mounted = "yes"
    /\ SetStore(clearMessages(Store))
    /\ UNCHANGED <<nextId, serviceVars, containerVars>>

NextSession ==
    \/ NextApp
    \/ StartNewSession
    \/ ClearMessages

SpecSession == Init /\ [][NextSession]_vars

(***************************************************************************)
(* SpecConnection: the service's connection management, reconnect()        *)
(* called at any time next to one exchange.                                *)
(***************************************************************************)
\* the catch clause of reconnect
ReconnectionFailed(f) ==
    ErrorContext(classifyError(f), <<"RECONNECTION_FAILED">>, TRUE)

\* reconnect(): this.client = null, then initializeClient() constructs the
\* client or throws the Error it wraps the failure in
Reconnect(outcome) ==
    /\ outcome \in {"ok", "clientError"}
    /\ outcome = "clientError" => serviceStatus.connectionAttempts <= MaxAttempts
    /\ client' = (outcome = "ok")
    /\ serviceStatus' = updateConnectionStatus(serviceStatus,
                            IF outcome = "ok" THEN "true" ELSE "false")
    /\ reconnected' = IF outcome = "ok"
                      THEN Result(TRUE, NoError)
                      ELSE Result(FALSE, ReconnectionFailed(PlainError))
    /\ UNCHANGED <<storeVars, nextId, ex, containerVars>>

NextConnection ==
    \/ \E outcome \in {"ok", "clientError"} : Reconnect(outcome)
    \/ \E e \in {Min(Exchanges)} :
        \/ \E message \in OutboundMessages : SendMessageWithStreaming(e, message)
        \/ Initialized(e)
        \/ \E f \in AppFailures : SendThrows(e, f)
        \/ \E kind \in ResponseKinds : SendReturnsNoBody(e, kind)
        \/ \E payload \in AppPayloads : SendReturnsStream(e, payload)
        \/ \E payload \in AppPayloads : SendReturnsBuffered(e, payload)
        \/ \E n \in ChunkEnds(ex[e].raw) : ReadValue(e, n)
        \/ ReadDone(e)
        \/ \E f \in AppFailures : ReadThrows(e, f)
        \/ TransformReturns(e)
        \/ \E f \in AppFailures : TransformThrows(e, f)

SpecConnection == InitService /\ [][NextConnection]_vars

(***************************************************************************)
(* Properties of the exchange (SpecService).                               *)
(***************************************************************************)
Count(calls, cb) == Cardinality({i \in 1..Len(calls) : calls[i].cb = cb})

\* the fragments passed to onChunk, in call order
ChunkTexts(calls) ==
    LET chunks == SelectSeq(calls, LAMBDA c : c.cb = "onChunk")
    IN  [i \in 1..Len(chunks) |-> chunks[i].text]

\* the received part of a stream's payload
Received(x) == Take(x.payload, Len(x.payload) - Len(x.raw))

\* a stream exchange about to read its first chunk
FreshStream(x) ==
    [x EXCEPT !.raw = <<>>, !.pending = <<>>, !.buffer = <<>>, !.calls = <<>>,
              !.pc = "read", !.result = "none", !.thrown = NoFailure]

\* C3: an exchange in which the channel failed (open failure, missing or
\* unsupported response, read failure) has invoked onError exactly once, as
\* its last callback, and never onComplete; no exchange invokes both
\* onComplete and onError, nor either of them twice.  (The callbacks
\* return normally, as those handleSendMessage passes do.)
C3_ErrorExactlyOnce ==
    \A e \in Exchanges :
        LET x == ex[e]
        IN  /\ Count(x.calls, "onError") + Count(x.calls, "onComplete") <= 1
            /\ x.thrown # NoFailure =>
                  /\ x.pc = "done"
                  /\ Count(x.calls, "onError") = 1
                  /\ Count(x.calls, "onComplete") = 0
                  /\ x.calls[Len(x.calls)].cb = "onError"

\* a read failed after a fragment had been delivered
C3_Witness ==
    \E e \in Exchanges :
        /\ ex[e].kind = "stream"
        /\ ex[e].thrown # NoFailure
        /\ Count(ex[e].calls, "onChunk") >= 1

\* the fragments of every event record of a text, for either path
AllFragments(x) ==
    IF x.kind = "stream"
    THEN ProcessEvents(Split(DecodeStream(<<>>, x.payload).text, <<LF, LF>>))
    ELSE LET events == SelectNonBlank(Split(TransformToString(x.payload), <<LF, LF>>))
         IN  Concat([i \in 1..Len(events) |-> parseSSEEvent(events[i])])

\* C4: an exchange whose channel ended normally has invoked onComplete
\* exactly once, as its last callback, after one onChunk for every fragment
\* of every event record of the stream, the final carry-over included.
C4_CompleteAfterAllFragments ==
    \A e \in Exchanges :
        LET x == ex[e]
        IN  /\ (x.pc = "done" /\ x.kind \in {"stream", "buffered"} /\ x.thrown = NoFailure)
                  => x.calls = OnChunkCalls(AllFragments(x)) \o <<OnComplete>>
            /\ \A i \in 1..Len(x.calls) :
                  x.calls[i].cb = "onComplete" => i = Len(x.calls)

\* a stream ended normally whose last fragment came from the carry-over
C4_Witness ==
    \E e \in Exchanges :
        /\ ex[e].pc = "done"
        /\ ex[e].kind = "stream"
        /\ ex[e].thrown = NoFailure
        /\ ex[e].buffer = DeltaEvent(<<"H">>)
        /\ Count(ex[e].calls, "onChunk") >= 2
        /\ Count(ex[e].calls, "onComplete") = 1

\* C6: an exchange started with an empty or all-whitespace message never
\* calls client.send; it invokes onError once, with type validation and
\* retryable false, invokes nothing else, and returns success = false.
C6_EmptyMessageRejected ==
    \A e \in Exchanges :
        LET x == ex[e]
        IN  (x.pc # "idle" /\ ~TrimNonEmpty(x.message)) =>
                /\ x.pc = "done"
                /\ x.sent = 0
                /\ Len(x.calls) = 1
                /\ x.calls[1].cb = "onError"
                /\ x.calls[1].err.type = "validation"
                /\ x.calls[1].err.retryable = FALSE
                /\ x.result = "failure"

C6_Witness ==
    \E e \in Exchanges : ex[e].pc = "done" /\ ex[e].message = <<LF, SP>>

\* C7: whatever the chunks a stream's payload arrives in, the callbacks
\* made, the carry-over and the decoder state after any number of chunks
\* are those of reading the received bytes as one single chunk; and so
\* are the callbacks of the whole exchange once the channel has ended.
C7_FragmentationInvariance ==
    \A e \in Exchanges :
        LET x == ex[e]
            one == StreamValue(FreshStream(x), Received(x))
        IN  /\ (x.kind = "stream" /\ x.pc = "read") =>
                  /\ x.calls = one.calls
                  /\ x.buffer = one.buffer
                  /\ x.pending = one.pending
            /\ (x.kind = "stream" /\ x.pc = "done" /\ x.thrown = NoFailure) =>
                  ChunkTexts(x.calls) = ChunkTexts(StreamDone(one).calls)

\* a chunk has ended between the two line feeds of a separator, after a
\* fragment was delivered
C7_Witness ==
    \E e \in Exchanges :
        /\ ex[e].pc = "read"
        /\ ex[e].calls # <<>>
        /\ ex[e].buffer # <<>>
        /\ ex[e].buffer[Len(ex[e].buffer)] = LF
        /\ ex[e].raw # <<>>
        /\ Head(ex[e].raw) = LF

StreamingMessages == {i \in 1..Len(messages) : messages[i].isStreaming}

\* C1: at most one message of the list has isStreaming = TRUE, whatever
\* store operations were called.
C1_AtMostOneStreaming == Cardinality(StreamingMessages) <= 1

\* C2: a message has isStreaming = TRUE exactly if its id is
\* currentStreamingMessageId, and the store's isStreaming is TRUE exactly if
\* currentStreamingMessageId is non-null and the id of a listed message.
C2_StreamingTracked ==
    /\ \A i \in 1..Len(messages) :
           messages[i].isStreaming <=> messages[i].id = currentStreamingMessageId
    /\ isStreaming <=> (/\ currentStreamingMessageId # NoId
                        /\ FindIndex(messages, currentStreamingMessageId) # 0)

(***************************************************************************)
(* Properties of the application (SpecApp).                                *)
(***************************************************************************)
\* the message with this id before and after a step, and the ids of the
\* messages a step keeps
Before(id) == LET i == FindIndex(messages, id) IN messages[i]

After(id) == LET i == FindIndex(messages', id) IN messages'[i]

Kept == {messages[i].id : i \in 1..Len(messages)}
            \cap {messages'[i].id : i \in 1..Len(messages')}

\* the exchanges started by handleSendMessage whose last callback so far
\* is onComplete
Completed == {e \in Exchanges :
                 /\ ex[e].agentId # NoId
                 /\ ex[e].calls # <<>>
                 /\ ex[e].calls[Len(ex[e].calls)].cb = "onComplete"}

\* C5: once an exchange has ended with onComplete, its onChunk calls have
\* been one per fragment of its event records, in stream order, and the
\* content of its placeholder message (created empty) is the concatenation
\* of those fragments in that order.
C5_ContentIsConcatenation ==
    \A e \in Completed :
        LET x == ex[e]
            i == FindIndex(messages, x.agentId)
        IN  /\ ChunkTexts(x.calls) = AllFragments(x)
            /\ i # 0
            /\ messages[i].content = Concat(AllFragments(x))

\* a stream of two fragments has completed into its placeholder
C5_Witness ==
    \E e \in Completed :
        /\ ex[e].kind = "stream"
        /\ Len(ChunkTexts(ex[e].calls)) = 2
        /\ \E i \in 1..Len(messages) :
               /\ messages[i].id = ex[e].agentId
               /\ messages[i].isComplete
               /\ messages[i].content = <<"H", EAcute, "i", LF>>

\* the fragments exchange e delivers in a step
Delivered(e) ==
    IF ex'[e].agentId = ex[e].agentId /\ Len(ex'[e].calls) >= Len(ex[e].calls)
    THEN ChunkTexts(Drop(ex'[e].calls, Len(ex[e].calls)))
    ELSE <<>>

\* C9: a step leaves the content of a streaming message an extension of
\* what it was (the old content is a prefix of the new), and a strict one
\* if the step delivered non-empty fragments to it.
C9_ContentMonotonic ==
    [][\A id \in Kept :
          Before(id).isStreaming =>
              /\ IsPrefix(Before(id).content, After(id).content)
              /\ \A e \in Exchanges :
                    (/\ ex[e].agentId = id
                     /\ Delivered(e) # <<>>
                     /\ \A k \in 1..Len(Delivered(e)) : Delivered(e)[k] # <<>>)
                        => Len(After(id).content) > Len(Before(id).content)]_vars

\* a streaming message has been appended to twice
C9_Witness ==
    \E e \in Exchanges :
        /\ Len(ChunkTexts(ex[e].calls)) = 2
        /\ \E i \in 1..Len(messages) :
               /\ messages[i].id = ex[e].agentId
               /\ messages[i].isStreaming
               /\ messages[i].content = Concat(ChunkTexts(ex[e].calls))

\* C10: no step changes the content of a message that is complete.
C10_CompleteContentFrozen ==
    [][\A id \in Kept :
          Before(id).isComplete => After(id).content = Before(id).content]_vars

(***************************************************************************)
(* Properties of the store (Spec), continued.                              *)
(***************************************************************************)
\* C11: in every reachable store state and for every id, completeMessage(id)
\* called twice in a row leaves the store exactly as calling it once does.
C11_CompletionIdempotent ==
    \A id \in KnownIds :
        completeMessage(completeMessage(Store, id), id) = completeMessage(Store, id)

\* the current streaming message is listed, so that completing it changes
\* the message, the streaming reference and the streaming status
C11_Witness ==
    \E i \in 1..Len(messages) :
        /\ messages[i].isStreaming
        /\ messages[i].id = currentStreamingMessageId
        /\ completeMessage(Store, messages[i].id).streamingStatus # streamingStatus
        /\ completeMessage(Store, messages[i].id).messages # messages

(***************************************************************************)
(* Properties of the service's errors (SpecConnection).                    *)
(***************************************************************************)
\* the ErrorContexts the service has built from caught failures: those
\* passed to onError and the one reconnect() returned
BuiltErrors ==
    UNION {{ex[e].calls[i].err : i \in 1..Len(ex[e].calls)} : e \in Exchanges}
        \cup {reconnected.error}

\* C12: every ErrorContext the service has built from a caught failure has
\* retryable = TRUE exactly if its type is network or api.
C12_RetryableIffNetworkOrApi ==
    \A ctx \in BuiltErrors \ {NoError} :
        ctx.retryable <=> ctx.type \in {"network", "api"}

(***************************************************************************)
(* Properties of the application (SpecApp): cancellation, concurrency and  *)
(* the streaming status.                                                   *)
(***************************************************************************)
\* the exchanges that have started and not yet settled
InFlight == {e \in Exchanges : ex[e].pc \notin {"idle", "done"}}

\* exchange e is in flight and its placeholder has been completed: while
\* the container is mounted only the Cancel button (stopStreaming) does that
Cancelled(e) ==
    /\ mounted = "yes"
    /\ e \in InFlight
    /\ ex[e].agentId # NoId
    /\ FindIndex(messages, ex[e].agentId) # 0
    /\ Before(ex[e].agentId).isComplete
    /\ ~Before(ex[e].agentId).isStreaming

\* C13: once an in-flight exchange has been cancelled, no step delivers a
\* fragment of it (no onChunk call) and none appends to its message.
C13_NoFragmentAfterCancel ==
    [][\A e \in Exchanges :
          Cancelled(e) =>
              /\ Delivered(e) = <<>>
              /\ ex[e].agentId \in Kept =>
                     After(ex[e].agentId).content = Before(ex[e].agentId).content]_vars

\* C14: a step of the container alone that ends streaming (Cancel) leaves
\* the current streaming message complete with the content it had; and the
\* message of a cancelled exchange stays in the list, complete, under every
\* later step.
C14_CancelledMessageKept ==
    [][/\ (/\ ex' = ex
           /\ mounted' = "yes"
           /\ isStreaming /\ ~isStreaming'
           /\ FindIndex(messages, currentStreamingMessageId) # 0)
          => /\ currentStreamingMessageId \in Kept
             /\ After(currentStreamingMessageId).isComplete
             /\ ~After(currentStreamingMessageId).isStreaming
             /\ After(currentStreamingMessageId).content
                    = Before(currentStreamingMessageId).content
       /\ \A e \in Exchanges :
             Cancelled(e) =>
                 /\ ex[e].agentId \in Kept
                 /\ After(ex[e].agentId).isComplete]_vars

\* C15: at most one exchange is in flight at any time.
C15_OneExchangeInFlight == Cardinality(InFlight) <= 1

\* the edges of idle -> connecting -> streaming -> (complete | error) -> idle
Lifecycle ==
    { <<"idle", "connecting">>, <<"connecting", "streaming">>,
      <<"streaming", "complete">>, <<"streaming", "error">>,
      <<"complete", "idle">>, <<"error", "idle">> }

\* C20: every change of streamingStatus.state is an edge of the lifecycle.
C20_StatusFollowsLifecycle ==
    [][streamingStatus'.state # streamingStatus.state =>
          <<streamingStatus.state, streamingStatus'.state>> \in Lifecycle]_vars

(***************************************************************************)
(* Properties of the event records (SpecService).                          *)
(***************************************************************************)
\* the event records of a payload: the decoded text split at blank lines
EventRecords(payload) ==
    SelectNonBlank(Split(TransformToString(payload), <<LF, LF>>))

\* an event record whose data is the cut-short JSON of MalformedEvent
IsMalformed(event) == DataOf(event) = Drop(MalformedEvent, Len(DataPrefix))

\* the fragments of the event records of a payload that are not malformed,
\* each record taken on its own
WellFormedFragments(x) ==
    LET kept == SelectSeq(EventRecords(x.payload), LAMBDA event : ~IsMalformed(event))
    IN  Concat([i \in 1..Len(kept) |->
                   IF x.kind = "stream" THEN processSSEBuffer(kept[i])
                   ELSE parseSSEEvent(kept[i])])

\* an exchange whose channel was read, or converted, to its normal end
EndedNormally(x) ==
    x.pc = "done" /\ x.kind \in {"stream", "buffered"} /\ x.thrown = NoFailure

\* C16: a malformed event record never aborts the stream.  An exchange
\* whose channel ended normally has delivered, in order, exactly the
\* fragments of the event records that are not malformed, then invoked
\* onComplete once and never onError; for the three events of ScenarioD,
\* the second malformed, these are the two fragments of events 1 and 3.
C16_MalformedEventSkipped ==
    \A e \in Exchanges :
        LET x == ex[e]
        IN  EndedNormally(x) =>
                /\ ChunkTexts(x.calls) = WellFormedFragments(x)
                /\ Count(x.calls, "onComplete") = 1
                /\ Count(x.calls, "onError") = 0
                /\ x.payload = ScenarioD =>
                      ChunkTexts(x.calls) = << <<"H", EAcute>>, <<"i", LF>> >>

\* the three events of ScenarioD were read from a stream in several chunks
\* up to the end
C16_Witness ==
    \E e \in Exchanges :
        /\ EndedNormally(ex[e])
        /\ ex[e].kind = "stream"
        /\ ex[e].payload = ScenarioD
        /\ Len(ex[e].calls) = 3
        /\ ex[e].calls[3].cb = "onComplete"

\* C17: the result of sendMessageWithStreaming is observable only once the
\* exchange has settled.  In every step, an exchange whose result is set
\* has stopped, having invoked exactly one of onComplete and onError, and
\* an exchange whose result was already set invokes no further callback.
C17_ResolvesAfterSettled ==
    [][\A e \in Exchanges :
          /\ ex'[e].result # "none" =>
                /\ ex'[e].pc = "done"
                /\ Count(ex'[e].calls, "onComplete") + Count(ex'[e].calls, "onError") = 1
          /\ ex[e].result # "none" => ex'[e].calls = ex[e].calls]_vars

\* a converted body delivered a fragment and the call returned success
C17_Witness ==
    \E e \in Exchanges :
        /\ ex[e].result = "success"
        /\ ex[e].kind = "buffered"
        /\ Count(ex[e].calls, "onChunk") >= 1
        /\ ex[e].calls[Len(ex[e].calls)].cb = "onComplete"

\* the event records of a payload that carry 'stopReason': 'tool_use'
ToolUseRecords(payload) ==
    SelectSeq(EventRecords(payload), LAMBDA event : ToolUseMatch(DataOf(event)))

\* C18: an event record that carries the tool-invocation stop signal
\* yields the fixed status fragment and no payload text: an exchange whose
\* channel ended normally has delivered the status fragment once for each
\* such record, on the stream path and on the converted-body path alike.
C18_ToolUseYieldsStatus ==
    \A e \in Exchanges :
        LET x == ex[e]
        IN  EndedNormally(x) =>
                Len(SelectSeq(ChunkTexts(x.calls), LAMBDA text : text = ToolUseMessage))
                    = Len(ToolUseRecords(x.payload))

\* C19: each event record produces zero or one fragment: a stream exchange
\* has invoked onChunk at most once for each event record it has received.
C19_AtMostOneFragmentPerEvent ==
    \A e \in Exchanges :
        LET x == ex[e]
        IN  x.kind = "stream" =>
                Count(x.calls, "onChunk") <= Len(EventRecords(Received(x)))

(***************************************************************************)
(* Properties of the store's streaming status (Spec).                      *)
(***************************************************************************)
\* C21: addAgentMessage(content, true) creates a placeholder, makes it the
\* current streaming message and sets streamingStatus.state to streaming:
\* a step that appends a streaming agent message under a fresh id leaves
\* it tracked, with the status streaming.
C21_PlaceholderSetsStreaming ==
    [][(/\ nextId' = nextId + 1
        /\ Len(messages') = Len(messages) + 1
        /\ messages'[Len(messages')].sender = "agent"
        /\ messages'[Len(messages')].isStreaming)
       => /\ messages'[Len(messages')].id = nextId
          /\ currentStreamingMessageId' = nextId
          /\ isStreaming'
          /\ streamingStatus'.state = "streaming"]_vars

\* C22: completeMessage(id) on the tracked current streaming message
\* leaves the message complete and not streaming, no message tracked, and
\* streamingStatus.state at idle.
C22_CompletionReturnsToIdle ==
    \A id \in KnownIds :
        LET i == FindIndex(messages, id)
            t == completeMessage(Store, id)
        IN  (i # 0 /\ id = currentStreamingMessageId) =>
                /\ ~t.messages[i].isStreaming
                /\ t.messages[i].isComplete
                /\ t.currentStreamingMessageId = NoId
                /\ ~t.isStreaming
                /\ t.streamingStatus.state = "idle"

\* C23: streamingStatus.error is set only while streamingStatus.state is
\* error.
C23_StatusErrorOnlyInErrorState ==
    streamingStatus.error # NoError => streamingStatus.state = "error"

(***************************************************************************)
(* Properties of the classification of failures (SpecService).             *)
(***************************************************************************)
\* the classification by priority: credential or authorization words, then
\* connectivity or timeout words, then stream words, then any other
\* structured error, then TypeError / SyntaxError, then the rest
PriorityClass(f) ==
    IF isAWSError(f)
    THEN IF Includes(f.code, "Auth") \/ Includes(f.code, "Credential") THEN "authentication"
         ELSE IF \/ Includes(f.code, "Network") \/ Includes(f.code, "Connection")
                 \/ Includes(f.code, "Timeout")
              THEN "network"
         ELSE IF Includes(f.code, "Stream") THEN "streaming"
         ELSE "api"
    ELSE IF f.class \in {"TypeError", "SyntaxError"} THEN "validation"
    ELSE "unknown"

\* C24: classifyError gives every failure the channel has thrown its class
\* by priority.
C24_ClassifiedByPriority ==
    \A e \in Exchanges :
        ex[e].thrown # NoFailure => classifyError(ex[e].thrown) = PriorityClass(ex[e].thrown)

\* a failure whose code names a timeout
IsTimeout(f) == f.hasCode /\ Includes(f.code, "Timeout")

\* C25: an exchange whose channel-open call or fragment read timed out has
\* invoked onError, as its last callback, with type network and retryable
\* true.
C25_TimeoutIsRetryableNetworkError ==
    \A e \in Exchanges :
        LET x == ex[e]
        IN  IsTimeout(x.thrown) =>
                /\ x.calls # <<>>
                /\ x.calls[Len(x.calls)].cb = "onError"
                /\ x.calls[Len(x.calls)].err.type = "network"
                /\ x.calls[Len(x.calls)].err.retryable

(***************************************************************************)
(* Properties of the two decode paths (SpecService).                       *)
(***************************************************************************)
\* the fragments each path delivers for a payload read to its normal end
StreamFragments(x) ==
    ChunkTexts(StreamDone(StreamValue(FreshStream(x), x.payload)).calls)

BufferedFragments(x) ==
    ChunkTexts(Buffered(FreshStream(x), TransformToString(x.payload)).calls)

\* C26: the incremental path and the fully-buffered path are one decode
\* pipeline: an exchange that ended normally on either path has delivered
\* the fragments the other path delivers for the same payload.
C26_PathsDeliverSameFragments ==
    \A e \in Exchanges :
        LET x == ex[e]
        IN  EndedNormally(x) =>
                /\ ChunkTexts(x.calls) = StreamFragments(x)
                /\ ChunkTexts(x.calls) = BufferedFragments(x)

\* the step in which the stream of exchange e ends normally
EndOfChannel(e) ==
    /\ ex[e].kind = "stream"
    /\ ex[e].pc = "read"
    /\ ex'[e].pc = "done"
    /\ ex'[e].thrown = NoFailure

\* C27: at the end of the channel a carry-over that is not blank is
\* processed as one final event record, its fragments delivered before
\* onComplete; a blank carry-over yields nothing before onComplete.
C27_CarryOverFlushedBeforeComplete ==
    [][\A e \in Exchanges :
          EndOfChannel(e) =>
              LET new == Drop(ex'[e].calls, Len(ex[e].calls))
                  last == SelectNonBlank(<<ex[e].buffer>>)
              IN  /\ Take(ex'[e].calls, Len(ex[e].calls)) = ex[e].calls
                  /\ new # <<>>
                  /\ new[Len(new)] = OnComplete
                  /\ Count(new, "onComplete") = 1
                  /\ ChunkTexts(new) =
                        Concat([i \in 1..Len(last) |-> processSSEBuffer(last[i])])
                  /\ ~TrimNonEmpty(ex[e].buffer) => new = <<OnComplete>>]_vars

\* a stream has ended whose only fragment came from the carry-over
C27_Witness ==
    \E e \in Exchanges :
        /\ ex[e].kind = "stream"
        /\ ex[e].pc = "done"
        /\ ex[e].buffer = DeltaEvent(<<"H">>)
        /\ ex[e].calls = <<Call("onChunk", <<"H">>, NoError), OnComplete>>

(***************************************************************************)
(* Properties of the store's operations (Spec).                            *)
(***************************************************************************)
\* C28: appendToMessage(id, fragment) with an id that is not in the list
\* returns false and leaves the whole store as it was; with an id that is
\* in the list it returns true, puts the fragment at the end of that
\* message's content and changes nothing else.
C28_AppendToAbsentIsNoOp ==
    \A id \in KnownIds, content \in Fragments :
        LET i == FindIndex(messages, id)
            t == appendToMessage(Store, id, content)
        IN  IF i = 0
            THEN /\ ~appendToMessageReturns(Store, id)
                 /\ t = Store
            ELSE /\ appendToMessageReturns(Store, id)
                 /\ t.messages[i].content = messages[i].content \o content
                 /\ t.messages = [messages EXCEPT ![i].content = t.messages[i].content]
                 /\ t = [Store EXCEPT !.messages = t.messages]

\* an id handed out earlier is no longer in the list, next to a message
\* that has been appended to
C28_Witness ==
    /\ \E id \in 1..(nextId - 1) : FindIndex(messages, id) = 0
    /\ \E i \in 1..Len(messages) :
           messages[i].sender = "agent" /\ messages[i].content = <<"H", "i">>

\* C29: addUserMessage(text) whose sanitized text is empty leaves the store
\* (message list and session bookkeeping included) as it was; otherwise it
\* appends one message at the end of the list, with the sanitized text,
\* sender user, isStreaming false and isComplete true, adds one to
\* messageCount and changes nothing else.  Sanitizing trims the text and
\* collapses each run of whitespace into one space (the texts of UserInputs
\* stay below the cap of SanitizeLimit characters).
C29_UserMessageSanitizedOrRejected ==
    /\ sanitizeMessageContent(<<SP, LF>>) = <<>>
    /\ sanitizeMessageContent(<<SP, "H", SP, LF, "i", SP>>) = <<"H", SP, "i">>
    /\ \A content \in UserInputs :
          LET c == sanitizeMessageContent(content)
              t == addUserMessage(Store, nextId, content)
          IN  IF c = <<>>
              THEN t = Store
              ELSE /\ t.messages =
                         Append(messages, [id |-> nextId, content |-> c, sender |-> "user",
                                           isStreaming |-> FALSE, isComplete |-> TRUE])
                   /\ t.currentSession.messageCount = currentSession.messageCount + 1
                   /\ t = [Store EXCEPT !.messages = t.messages,
                                        !.currentSession.messageCount = @ + 1]

\* a user message has been added at the end of a list that held a message
C29_Witness ==
    /\ Len(messages) >= 2
    /\ messages[Len(messages)] = UserMessage(nextId - 1, <<"H", SP, "i">>)
    /\ currentSession.messageCount = Len(messages)

\* the positions of the user messages of the list
UserPositions == {i \in 1..Len(messages) : messages[i].sender = "user"}

\* C30: retryLastMessage() returns the user message that is last in list
\* order, leaves the store without error (the status, if in the error
\* state, back at idle) and the message list and everything else as they
\* were; with no user message in the list it returns null and leaves the
\* store, its error included, as it was.
C30_RetryReturnsLastUserMessage ==
    LET t == retryLastMessage(Store)
        r == retryLastMessageReturns(Store)
    IN  IF UserPositions = {}
        THEN r = NoId /\ t = Store
        ELSE /\ \E i \in UserPositions :
                   /\ messages[i].id = r
                   /\ \A j \in UserPositions : j <= i
             /\ t.error = NoError
             /\ t.messages = messages
             /\ t.streamingStatus =
                   IF streamingStatus.state = "error"
                   THEN [streamingStatus EXCEPT !.state = "idle", !.error = NoError]
                   ELSE streamingStatus
             /\ t = [Store EXCEPT !.error = NoError, !.streamingStatus = t.streamingStatus]

\* two user messages are listed and an error is in place
C30_Witness ==
    /\ Cardinality(UserPositions) = 2
    /\ error # NoError
    /\ streamingStatus.state = "error"

(***************************************************************************)
(* Properties of the application (SpecApp): failures and recovery.         *)
(***************************************************************************)
\* exchange e invokes onError in this step
Fails(e) ==
    /\ ex'[e].agentId = ex[e].agentId
    /\ Len(ex'[e].calls) > Len(ex[e].calls)
    /\ ex'[e].calls[Len(ex'[e].calls)].cb = "onError"

\* C31: the placeholder of an exchange that ends in onError is rolled back
\* only if nothing was delivered to it: a placeholder that holds content
\* when its exchange fails stays in the list.
C31_RollbackOnlyBeforeContent ==
    [][\A e \in Exchanges :
          (/\ Fails(e)
           /\ ex[e].agentId # NoId
           /\ FindIndex(messages, ex[e].agentId) # 0
           /\ Before(ex[e].agentId).content # <<>>)
          => ex[e].agentId \in Kept]_vars

\* C36: when an exchange has failed (its onError ran setError and then
\* removeMessage of the placeholder), no other exchange is running and
\* the store is connected, clearError leads to canSendMessage = true, and
\* the guard of the handleSendMessage that handleRetryError calls for the
\* last user message passes.
C36_DismissOrRetryCanSendAgain ==
    [][\A e \in Exchanges :
          (/\ Fails(e) /\ ex[e].agentId # NoId
           /\ mounted' = "yes" /\ isConnected' /\ InFlight' = {})
          => /\ canSendMessage(clearError(Store'))
             /\ (error'.retryable /\ LastUserIndex(messages') # 0)
                => /\ awsService' /\ ~isInitializing'
                   /\ canSendMessage(retryLastMessage(clearError(Store')))]_vars

\* C38: once sendMessageWithStreaming has returned, its result has
\* success = false exactly if onError was invoked for the exchange and
\* success = true exactly if onComplete was invoked.
C38_SuccessFlagAgreesWithCallbacks ==
    \A e \in Exchanges :
        ex[e].result # "none" =>
            /\ ex[e].result = "failure" <=> Count(ex[e].calls, "onError") > 0
            /\ ex[e].result = "success" <=> Count(ex[e].calls, "onComplete") > 0

(***************************************************************************)
(* Properties of an exchange that outlives its session (SpecSession).      *)
(***************************************************************************)
\* C39: an exchange whose placeholder startNewSession() or clearMessages()
\* has taken out of the list is still running; the callbacks it invokes
\* from then on leave the message list, the error and the streaming
\* status as they are.
C39_LateCallbacksLeaveNewSession ==
    [][\A e \in Exchanges :
          (/\ e \in InFlight /\ ex[e].agentId # NoId
           /\ FindIndex(messages, ex[e].agentId) = 0
           /\ ex'[e].agentId = ex[e].agentId
           /\ ex'[e].calls # ex[e].calls)
          => /\ messages' = messages
             /\ error' = error
             /\ streamingStatus' = streamingStatus]_vars

(***************************************************************************)
(* Properties of the store's session and connection bookkeeping (Spec).    *)
(***************************************************************************)
\* C32: each successful addUserMessage, addAgentMessage, appendToMessage,
\* completeMessage and removeMessage advances currentSession.lastActivity,
\* and a failed one (absent id, empty text) leaves it as it was.
C32_LastActivityFollowsMutations ==
    /\ \A content \in UserInputs :
          lastActivityAssignments("addUserMessage", Store, NoId, content) > 0
              <=> sanitizeMessageContent(content) # <<>>
    /\ lastActivityAssignments("addAgentMessage", Store, NoId, <<>>) > 0
    /\ \A id \in KnownIds :
          \A op \in {"appendToMessage", "completeMessage", "removeMessage"} :
              lastActivityAssignments(op, Store, id, <<"i">>) > 0
                  <=> FindIndex(messages, id) # 0

\* C33: endSession() leaves the session inactive, the store disconnected,
\* no message streaming and the message list empty.
C33_EndSessionClearsConversation ==
    LET t == endSession(Store)
    IN  /\ ~t.currentSession.isActive
        /\ ~t.isConnected
        /\ ~t.isStreaming
        /\ t.currentStreamingMessageId = NoId
        /\ t.messages = <<>>

\* C34: connectionAttempts is 0 whenever isConnected is true, in the store
\* and in the service, and a status update without a connect outcome
\* leaves it as it was.
C34_AttemptsResetWhileConnected ==
    /\ isConnected => connectionStatus.connectionAttempts = 0
    /\ connectionStatus.isConnected => connectionStatus.connectionAttempts = 0
    /\ serviceStatus.isConnected => serviceStatus.connectionAttempts = 0
    /\ setConnectionStatus(Store, "absent").connectionStatus.connectionAttempts
           = connectionStatus.connectionAttempts
    /\ updateConnectionStatus(serviceStatus, "absent").connectionAttempts
           = serviceStatus.connectionAttempts

C37_MessageCountIsListLength == currentSession.messageCount = Len(messages)

\* two messages were added and the second one removed: the first is
\* left and counted
C37_Witness ==
    /\ nextId = 3
    /\ Len(messages) = 1
    /\ messages[1].id = 1
    /\ currentSession.messageCount = 1

=============================================================================
